---- MODULE Spec2Model ----
(***************************************************************************)
(* org-mcp: the workflow-file server (src/unnamed/part_000, the MCP tool   *)
(* handlers) and its document library (src/src/org.ts).                    *)
(*                                                                         *)
(* Four specifications share this module.                                  *)
(*   Spec      the persistence guard: concurrent set_task_state /          *)
(*             append_task_log handlers over one workflow file, the marker *)
(*             file of withAdvisoryLock and the temporary files of         *)
(*             writeFileAtomic.  Documents are abstracted to the set of    *)
(*             mutations they reflect plus an "intact" flag.               *)
(*   SpecRoundTrip  sliceLines then joinLines on every short raw text.     *)
(*   SpecText  one request of the server against a concrete document       *)
(*             (texts are sequences of one-character strings).             *)
(*   SpecRanges  the end line computed for every heading of an outline.    *)
(***************************************************************************)
EXTENDS Integers, Sequences, FiniteSets, TLC

VARIABLES
    \* ---- Spec: file system and handlers ----
    file,      \* the workflow file: [exists, muts, whole]
    lock,      \* the marker file `${filePath}.lock`: NoLock, or the caller that created it
    tmp,       \* tmp[p]: the temporary sibling file of caller p: [exists, muts, whole]
    pc,        \* pc[p]: position of caller p in its handler
    local,     \* local[p]: `text`, then `next`, of the handler
    elapsed,   \* elapsed[p]: Date.now() - start of the withAdvisoryLock call
    fnErr,     \* fnErr[p]: error code thrown by fn, pending in the finally block
    outcome,   \* outcome[p]: how the request ended
    hist,      \* history per caller: runs of fn, the file when fn started, and
               \* whether fn got past writing its temporary file
    faults,    \* number of environment failures injected so far
    \* ---- SpecText: document library ----
    text,      \* the input document
    tpc,       \* position of the text pipeline
    lines,     \* the line array (with __eol / __endsWithNewline)
    out        \* the produced text or error

fsVars == <<file, lock, tmp, pc, local, elapsed, fnErr, outcome, hist, faults>>
txVars == <<text, tpc, lines, out>>
vars == <<fsVars, txVars>>

-----------------------------------------------------------------------------
(* Bounds *)
NumProcs == 2        \* concurrent callers
MaxFaults == 1       \* environment failures (I/O errors, crashes) per behaviour

(* Program constants *)
maxWaitMs == 5000    \* org.ts:77
retryMs == 50        \* org.ts:94

Procs == 1..NumProcs
Missing == [exists |-> FALSE, muts |-> {}, whole |-> TRUE, tasks |-> FALSE]   \* ENOENT
NoLock == 0

\* setTimeout(r, 50) resolves after at least 50 ms, and fs.open takes time too:
\* the time between two attempts is sampled as a quarter or a half of the wait
\* bound, so that Date.now() - start meets maxWaitMs exactly and exceeds it.
TimerDelays == {retryMs + (maxWaitMs \div 4 - retryMs), retryMs + (maxWaitMs \div 2 - retryMs)}

\* Only the comparison with maxWaitMs reads the elapsed time: it saturates
\* one retry interval above the bound.
Later(e, d) == IF e + d > maxWaitMs THEN maxWaitMs + retryMs ELSE e + d

\* The empty text "": it holds no task (tasks: whether the text holds the
\* task a request names, so that the mutator can succeed on it).
EmptyDoc == [exists |-> TRUE, muts |-> {}, whole |-> TRUE, tasks |-> FALSE]

\* The workflow file when it exists at the start: a document with tasks
InitialDoc == [exists |-> TRUE, muts |-> {}, whole |-> TRUE, tasks |-> TRUE]

\* Error codes an fs call can fail with.
FsErrCodes == {"EEXIST", "EIO"}

-----------------------------------------------------------------------------
ReadResult_NoDefault(f) == f
(* readOrgFile: a missing file reads as the empty text. *)
ReadResult(f) == IF f.exists THEN f ELSE EmptyDoc

(* The mutator applied by caller p: the document now reflects p's mutation. *)
Mutate(t, p) == [t EXCEPT !.muts = @ \cup {p}]

(* fs.open(lockPath, "wx"): succeeds only if the marker does not exist. *)
MarkerCreatable_NoExcl(l) == TRUE
MarkerCreatable(l) == l = NoLock

(* Date.now() - start > maxWaitMs *)
TimedOut_AtBound(e) == e >= maxWaitMs
TimedOut(e) == e > maxWaitMs

(* The finally block: fs.unlink(lockPath), whatever fn did. *)
MarkerAfterFn_OnSuccessOnly(l, err) == IF err = "none" THEN NoLock ELSE l
MarkerAfterFn(l, err) == NoLock

(* The catch block of withAdvisoryLock: only EEXIST re-enters the loop. *)
Retries(code) == code = "EEXIST"

(* In-place fs.writeFile(filePath): the file is opened with truncation first. *)
Truncated(c) == [c EXCEPT !.whole = FALSE]

-----------------------------------------------------------------------------
(* Handlers of set_task_state / append_task_log (part_000:106-110, 133-137) *)

InitFs ==
    /\ file \in {Missing, InitialDoc}
    /\ lock = NoLock
    /\ tmp = [p \in Procs |-> Missing]
    /\ pc = [p \in Procs |-> "read"]
    /\ local = [p \in Procs |-> EmptyDoc]
    /\ elapsed = [p \in Procs |-> 0]
    /\ fnErr = [p \in Procs |-> "none"]
    /\ outcome = [p \in Procs |-> "none"]
    /\ hist = [p \in Procs |-> [runs |-> 0, before |-> Missing, staged |-> FALSE]]
    /\ faults = 0

\* The handler returns or throws; its locals die with it.
Finish(p, res) ==
    /\ pc' = [pc EXCEPT ![p] = "done"]
    /\ outcome' = [outcome EXCEPT ![p] = res]
    /\ local' = [local EXCEPT ![p] = EmptyDoc]
    /\ elapsed' = [elapsed EXCEPT ![p] = 0]

\* const text = await readOrgFile(filePath);   (no lock is taken)
ReadOrgFile(p) ==
    /\ pc[p] = "read"
    /\ local' = [local EXCEPT ![p] = ReadResult(file)]
    /\ pc' = [pc EXCEPT ![p] = "transform"]
    /\ UNCHANGED <<file, lock, tmp, elapsed, fnErr, outcome, hist, faults, txVars>>

\* readOrgFile: a failure other than ENOENT is rethrown.
ReadFails(p) ==
    /\ pc[p] = "read"
    /\ faults < MaxFaults
    /\ faults' = faults + 1
    /\ Finish(p, "IOError")
    /\ UNCHANGED <<file, lock, tmp, fnErr, hist, txVars>>

\* const next = setTaskState(text, ...) / appendTaskLog(text, ...);
\* then writeOrgFile is entered: start = Date.now().
Transform(p) ==
    /\ pc[p] = "transform"
    /\ local[p].tasks          \* findTaskById found the task (org.ts:227)
    /\ local' = [local EXCEPT ![p] = Mutate(local[p], p)]
    /\ elapsed' = [elapsed EXCEPT ![p] = 0]
    /\ pc' = [pc EXCEPT ![p] = "acquire"]
    /\ UNCHANGED <<file, lock, tmp, fnErr, outcome, hist, faults, txVars>>

\* The mutator throws (InvalidState, TaskNotFound): writeOrgFile is never called.
\* On the empty text read for a missing file it always throws.
TransformThrows(p) ==
    /\ pc[p] = "transform"
    /\ Finish(p, "MutatorError")
    /\ UNCHANGED <<file, lock, tmp, fnErr, hist, faults, txVars>>

-----------------------------------------------------------------------------
(* withAdvisoryLock (org.ts:73-97) *)

\* The catch block when the caught error has code EEXIST.
CatchEexist(p) ==
    IF TimedOut(elapsed[p])
    THEN Finish(p, "LockTimeout")
    ELSE /\ \E d \in TimerDelays : elapsed' = [elapsed EXCEPT ![p] = Later(@, d)]
         /\ pc' = [pc EXCEPT ![p] = "acquire"]
         /\ UNCHANGED <<outcome, local>>

\* fs.open(lockPath, "wx") creates the marker.
OpenLock(p) ==
    /\ pc[p] = "acquire"
    /\ MarkerCreatable(lock)
    /\ lock' = p
    /\ pc' = [pc EXCEPT ![p] = "writeTmp"]
    /\ hist' = [hist EXCEPT ![p].runs = @ + 1, ![p].before = file,
                               ![p].staged = FALSE]
    /\ UNCHANGED <<file, tmp, local, elapsed, fnErr, outcome, faults, txVars>>

\* fs.open(lockPath, "wx") fails with EEXIST: time out or sleep and retry.
OpenLockExists(p) ==
    /\ pc[p] = "acquire"
    /\ ~MarkerCreatable(lock)
    /\ CatchEexist(p)
    /\ UNCHANGED <<file, lock, tmp, fnErr, hist, faults, txVars>>

\* fs.open(lockPath, "wx") fails with another code: rethrown, no marker made.
OpenLockFails(p) ==
    /\ pc[p] = "acquire"
    /\ lock = NoLock
    /\ faults < MaxFaults
    /\ faults' = faults + 1
    /\ Finish(p, "IOError")
    /\ UNCHANGED <<file, lock, tmp, fnErr, hist, txVars>>

\* finally { handle.close(); fs.unlink(lockPath) }, then return or the catch block.
\* The unlink of an existing marker by its creator is taken to succeed.
Release(p) ==
    /\ pc[p] = "release"
    /\ lock' = MarkerAfterFn(lock, fnErr[p])
    /\ fnErr' = [fnErr EXCEPT ![p] = "none"]
    /\ IF fnErr[p] = "none"
       THEN Finish(p, "ok")
       ELSE IF Retries(fnErr[p])
            THEN CatchEexist(p)
            ELSE Finish(p, "IOError")
    /\ UNCHANGED <<file, tmp, hist, faults, txVars>>

-----------------------------------------------------------------------------
(* writeFileAtomic (org.ts:52-71), the fn of writeOrgFile *)

FnThrows(p, code) ==
    /\ fnErr' = [fnErr EXCEPT ![p] = code]
    /\ pc' = [pc EXCEPT ![p] = "release"]

FnReturns(p) ==
    /\ fnErr' = [fnErr EXCEPT ![p] = "none"]
    /\ pc' = [pc EXCEPT ![p] = "release"]

\* await fs.writeFile(tmp, content, "utf8");
WriteTmp(p) ==
    /\ pc[p] = "writeTmp"
    /\ tmp' = [tmp EXCEPT ![p] = local[p]]
    /\ pc' = [pc EXCEPT ![p] = "rename"]
    /\ hist' = [hist EXCEPT ![p].staged = TRUE]
    /\ UNCHANGED <<file, lock, local, elapsed, fnErr, outcome, faults, txVars>>

\* fs.writeFile(tmp) fails: nothing created, or a truncated file left behind.
WriteTmpFails(p) ==
    /\ pc[p] = "writeTmp"
    /\ faults < MaxFaults
    /\ faults' = faults + 1
    /\ \E left \in {Missing, Truncated(local[p])} : tmp' = [tmp EXCEPT ![p] = left]
    /\ \E code \in FsErrCodes : FnThrows(p, code)
    /\ UNCHANGED <<file, lock, local, elapsed, outcome, hist, txVars>>

\* await fs.rename(tmp, filePath);  atomic replacement
Rename(p) ==
    /\ pc[p] = "rename"
    /\ file' = tmp[p]
    /\ tmp' = [tmp EXCEPT ![p] = Missing]
    /\ FnReturns(p)
    /\ UNCHANGED <<lock, local, elapsed, outcome, hist, faults, txVars>>

\* rename fails with EEXIST / EPERM (a platform that does not rename over an
\* existing file): the in-place fallback is taken.
RenameRefused(p) ==
    /\ pc[p] = "rename"
    /\ file.exists
    /\ pc' = [pc EXCEPT ![p] = "fallback"]
    /\ UNCHANGED <<file, lock, tmp, local, elapsed, fnErr, outcome, hist, faults, txVars>>

\* rename fails with another code: unlink(tmp); throw err.
RenameFails(p) ==
    /\ pc[p] = "rename"
    /\ faults < MaxFaults
    /\ faults' = faults + 1
    /\ tmp' = [tmp EXCEPT ![p] = Missing]
    /\ FnThrows(p, "EIO")
    /\ UNCHANGED <<file, lock, local, elapsed, outcome, hist, txVars>>

\* await fs.writeFile(filePath, content): open with truncation ...
FallbackOpen(p) ==
    /\ pc[p] = "fallback"
    /\ file' = Truncated(local[p])
    /\ pc' = [pc EXCEPT ![p] = "fallbackWrite"]
    /\ UNCHANGED <<lock, tmp, local, elapsed, fnErr, outcome, hist, faults, txVars>>

\* ... which may itself fail (the file is then untouched); the error leaves
\* writeFileAtomic before line 65.
FallbackOpenFails(p) ==
    /\ pc[p] = "fallback"
    /\ faults < MaxFaults
    /\ faults' = faults + 1
    /\ \E code \in FsErrCodes : FnThrows(p, code)
    /\ UNCHANGED <<file, lock, tmp, local, elapsed, outcome, hist, txVars>>

\* ... then the bytes are written; await fs.unlink(tmp); return.
FallbackWrite(p) ==
    /\ pc[p] = "fallbackWrite"
    /\ file' = local[p]
    /\ tmp' = [tmp EXCEPT ![p] = Missing]
    /\ FnReturns(p)
    /\ UNCHANGED <<lock, local, elapsed, outcome, hist, faults, txVars>>

\* ... or the write fails part-way.
FallbackWriteFails(p) ==
    /\ pc[p] = "fallbackWrite"
    /\ faults < MaxFaults
    /\ faults' = faults + 1
    /\ \E code \in FsErrCodes : FnThrows(p, code)
    /\ UNCHANGED <<file, lock, tmp, local, elapsed, outcome, hist, txVars>>

\* Positions between fs.open(lockPath, "wx") succeeding and fs.unlink(lockPath).
LockHeld == {"writeTmp", "rename", "fallback", "fallbackWrite", "release"}

\* The process dies while it holds the marker (org.ts:75: "if the process crashes, the lock file may be
\* left behind").
Crash(p) ==
    /\ pc[p] \in LockHeld
    /\ faults < MaxFaults
    /\ faults' = faults + 1
    /\ pc' = [pc EXCEPT ![p] = "crashed"]
    /\ UNCHANGED <<file, lock, tmp, local, elapsed, fnErr, outcome, hist, txVars>>

NextFs ==
    \E p \in Procs :
        \/ ReadOrgFile(p)
        \/ ReadFails(p)
        \/ Transform(p)
        \/ TransformThrows(p)
        \/ OpenLock(p)
        \/ OpenLockExists(p)
        \/ OpenLockFails(p)
        \/ WriteTmp(p)
        \/ WriteTmpFails(p)
        \/ Rename(p)
        \/ RenameRefused(p)
        \/ RenameFails(p)
        \/ FallbackOpen(p)
        \/ FallbackOpenFails(p)
        \/ FallbackWrite(p)
        \/ FallbackWriteFails(p)
        \/ Release(p)
        \/ Crash(p)

TextIdle ==
    /\ text = <<>>
    /\ tpc = "off"
    /\ lines = [ls |-> <<>>, eol |-> "LF", nl |-> FALSE]
    /\ out = <<>>

Init == InitFs /\ TextIdle
Next == NextFs
Spec == Init /\ [][Next]_vars

-----------------------------------------------------------------------------
(* Claims about the persistence guard, checked under Spec *)

InFn == {"writeTmp", "rename", "fallback", "fallbackWrite"}
Stale == lock # NoLock /\ pc[lock] = "crashed"

\* C1: concurrent mutation requests are serialized end to end, so when two
\* requests have both succeeded the file reflects both mutations (no update
\* is overwritten by the other request).
C1_NoLostUpdate ==
    \A p, q \in Procs :
        (pc[p] = "done" /\ outcome[p] = "ok" /\ pc[q] = "done" /\ outcome[q] = "ok")
            => {p, q} \subseteq file.muts

\* C2: mutual exclusion of the advisory lock: a caller between the creation
\* and the deletion of its marker owns the marker, hence at most one caller
\* executes fn, and a second one starts fn only after the marker was deleted.
C2_MutualExclusion ==
    /\ \A p \in Procs : pc[p] \in LockHeld => lock = p
    /\ \A p, q \in Procs : (pc[p] \in InFn /\ pc[q] \in InFn) => p = q

C2_Witness ==
    \E p, q \in Procs : pc[p] \in InFn /\ pc[q] = "acquire" /\ elapsed[q] > 0

C4_BoundedAcquisition ==
    [][ /\ \A p \in Procs :
            (pc[p] = "acquire" /\ lock # NoLock /\ <<pc[p], elapsed[p]>> # <<pc'[p], elapsed'[p]>>)
                => /\ hist'[p] = hist[p]
                   /\ lock' = lock
                   /\ IF elapsed[p] > maxWaitMs
                      THEN pc'[p] = "done" /\ outcome'[p] = "LockTimeout"
                      ELSE pc'[p] = "acquire" /\ elapsed'[p] > elapsed[p]
        /\ Stale => (Stale' /\ file' = file /\ tmp' = tmp)
      ]_vars

C4_Witness ==
    \E p \in Procs : Stale /\ pc[p] = "done" /\ outcome[p] = "LockTimeout" /\ hist[p].runs = 0

\* C5: no partial persistence: a reader of the workflow file never observes a
\* truncated document, and a write that failed has left the previous content
\* in place.
C5_NoPartialPersistence ==
    /\ file.whole
    /\ \A p \in Procs : (pc[p] = "release" /\ fnErr[p] # "none") => file = hist[p].before

\* C7: once writeFileAtomic has written its temporary file, the temporary
\* file is gone when writeFileAtomic returns or throws, on every path.
C7_TmpCleanedUp ==
    \A p \in Procs : (pc[p] = "release" /\ hist[p].staged) => ~tmp[p].exists

-----------------------------------------------------------------------------
(* The document library (src/src/org.ts:106-360) on concrete texts.        *)
(* A text is a sequence of one-character strings; a line is a text without *)
(* terminators.  Line indexes are the code's 0-based indexes.              *)

LF == "\n"
CR == "\r"

\* Bounds of the text specifications
MaxTextLen == 5      \* characters of a raw text (SpecRoundTrip)

\* JavaScript \s, restricted to the characters the model uses
IsSpace(c) == c \in {" ", "\t", LF, CR}

\* const x = v; F(x): v is evaluated once and F is applied to its value
Bind(v, F(_)) == CHOOSE r \in {F(x) : x \in {v}} : TRUE

RECURSIVE Flatten(_)
Flatten(ss) == IF ss = <<>> THEN <<>> ELSE Head(ss) \o Flatten(Tail(ss))

\* lines[i] of the code (0-based)
At(ls, i) == ls[i + 1]

\* lines.splice(at, 0, ...ins)
Splice(ls, at, ins) == SubSeq(ls, 1, at) \o ins \o SubSeq(ls, at + 1, Len(ls))

\* text.includes("\r\n")
HasCRLF(t) == \E i \in 1..(Len(t) - 1) : t[i] = CR /\ t[i + 1] = LF
HasCR(t) == \E i \in 1..Len(t) : t[i] = CR

\* /\r\n$|\n$|\r$/.test(text)
EndsWithNewline(t) == Len(t) > 0 /\ t[Len(t)] \in {LF, CR}

\* text.replace(/\r\n/g, "\n").replace(/\r/g, "\n")
\* Every CR that begins a CRLF pair is dropped (the pair becomes its LF), then
\* every remaining CR becomes LF.
Indexes(t) == [i \in 1..Len(t) |-> i]
Normalize(t) ==
    Bind(SelectSeq(Indexes(t), LAMBDA i : ~(t[i] = CR /\ i < Len(t) /\ t[i + 1] = LF)),
         LAMBDA kept : [k \in 1..Len(kept) |-> IF t[kept[k]] = CR THEN LF ELSE t[kept[k]]])

\* normalized.split("\n"): always at least one (possibly empty) line
SplitLF(t) ==
    Bind(SelectSeq(Indexes(t), LAMBDA i : t[i] = LF),
         LAMBDA brk : [k \in 1..(Len(brk) + 1) |->
                          SubSeq(t, IF k = 1 THEN 1 ELSE brk[k - 1] + 1,
                                    IF k = Len(brk) + 1 THEN Len(t) ELSE brk[k] - 1)])

EolChars(eol) ==
    CASE eol = "CRLF" -> <<CR, LF>>
      [] eol = "CR" -> <<CR>>
      [] OTHER -> <<LF>>

EolOf_LFOnly(t) == "LF"
\* sliceLines, org.ts:131-133: the one terminator style recorded for the text
EolOf(t) == IF HasCRLF(t) THEN "CRLF" ELSE IF HasCR(t) THEN "CR" ELSE "LF"

\* sliceLines: the array with its __eol and __endsWithNewline properties
sliceLines(t) ==
    [ls |-> SplitLF(Normalize(t)), eol |-> EolOf(t), nl |-> EndsWithNewline(t)]

\* lines.join(eol)
RECURSIVE JoinWith(_, _)
JoinWith(ls, sep) ==
    IF ls = <<>> THEN <<>>
    ELSE IF Len(ls) = 1 THEN ls[1]
    ELSE ls[1] \o sep \o JoinWith(Tail(ls), sep)

joinLines(la) ==
    IF ~la.nl /\ Len(la.ls) > 0 /\ la.ls[Len(la.ls)] = <<>>
    THEN JoinWith(SubSeq(la.ls, 1, Len(la.ls) - 1), EolChars(la.eol))
    ELSE JoinWith(la.ls, EolChars(la.eol))

-----------------------------------------------------------------------------
(* Headings, property drawers and tasks (org.ts:106-126, 158-259) *)

Str_PROPERTIES == <<":", "P", "R", "O", "P", "E", "R", "T", "I", "E", "S", ":">>
Str_END == <<":", "E", "N", "D", ":">>
Str_ID == <<"I", "D">>
Str_Log == <<"L", "o", "g">>
Str_AgentContext == <<"A", "g", "e", "n", "t", " ", "C", "o", "n", "t", "e", "x", "t">>

\* DEFAULT_STATES, org.ts:24-31
DEFAULT_STATES ==
    << <<"B", "A", "C", "K", "L", "O", "G">>,
       <<"T", "O", "D", "O">>,
       <<"I", "N", "-", "P", "R", "O", "G", "R", "E", "S", "S">>,
       <<"I", "N", "-", "R", "E", "V", "I", "E", "W">>,
       <<"D", "O", "N", "E">>,
       <<"C", "A", "N", "C", "E", "L", "L", "E", "D">> >>

\* allowedStates.includes(s)
Includes(allowed, s) == \E i \in 1..Len(allowed) : allowed[i] = s

\* [A-Za-z0-9_@#%\-]
KeyChars ==
    {"A","B","C","D","E","F","G","H","I","J","K","L","M","N","O","P","Q","R","S","T","U","V","W","X","Y","Z",
     "a","b","c","d","e","f","g","h","i","j","k","l","m","n","o","p","q","r","s","t","u","v","w","x","y","z",
     "0","1","2","3","4","5","6","7","8","9","_","@","#","%","-"}

\* Length of the longest prefix of l whose characters satisfy the test
RECURSIVE StarRun(_)
StarRun(l) == IF l # <<>> /\ Head(l) = "*" THEN 1 + StarRun(Tail(l)) ELSE 0
RECURSIVE SpaceRun(_)
SpaceRun(l) == IF l # <<>> /\ IsSpace(Head(l)) THEN 1 + SpaceRun(Tail(l)) ELSE 0
RECURSIVE WordRun(_)
WordRun(l) == IF l # <<>> /\ ~IsSpace(Head(l)) THEN 1 + WordRun(Tail(l)) ELSE 0
RECURSIVE KeyRun(_)
KeyRun(l) == IF l # <<>> /\ Head(l) \in KeyChars THEN 1 + KeyRun(Tail(l)) ELSE 0

Drop(l, n) == SubSeq(l, n + 1, Len(l))
Take(l, n) == SubSeq(l, 1, n)

\* String.prototype.trimEnd / trim
RECURSIVE TrimEnd(_)
TrimEnd(l) == IF l # <<>> /\ IsSpace(l[Len(l)]) THEN TrimEnd(Take(l, Len(l) - 1)) ELSE l
Trim(l) == TrimEnd(Drop(l, SpaceRun(l)))

\* /^\*+\s+/.test(line)
isHeadingLine(line) ==
    LET n == StarRun(line) IN n >= 1 /\ SpaceRun(Drop(line, n)) >= 1

\* line.match(/^(\*+)/): the number of leading markers
headingLevel(line) == StarRun(line)

\* line.replace(/^\*+\s+/, "")
StripMarkers(line) ==
    IF isHeadingLine(line)
    THEN LET n == StarRun(line) IN Drop(line, n + SpaceRun(Drop(line, n)))
    ELSE line

\* parseHeading, org.ts:115-126.  An absent state (undefined) is <<>>: a
\* recognized state is never the empty string.
parseHeading(line, allowedStates) ==
    LET rest == StripMarkers(line)
        maybeState == Take(rest, WordRun(rest))      \* rest.split(/\s+/)[0]
    IN IF maybeState # <<>> /\ Includes(allowedStates, maybeState)
       THEN [level |-> headingLevel(line), state |-> maybeState,
             title |-> Trim(Drop(rest, Len(maybeState)))]
       ELSE [level |-> headingLevel(line), state |-> <<>>, title |-> Trim(rest)]

\* t.match(/^:([A-Za-z0-9_@#%\-]+):\s*(.*)$/)
PropMatches(t) ==
    /\ t # <<>> /\ t[1] = ":"
    /\ LET k == KeyRun(Tail(t)) IN k >= 1 /\ Len(t) >= k + 2 /\ t[k + 2] = ":"
PropKey(t) == SubSeq(t, 2, KeyRun(Tail(t)) + 1)
PropValue(t) ==
    LET after == Drop(t, KeyRun(Tail(t)) + 2) IN Drop(after, SpaceRun(after))

\* First index in [i, end] whose trimmed line is :PROPERTIES:, or end + 1
RECURSIVE FindDrawer(_, _, _)
FindDrawer(ls, i, end) ==
    IF i > end THEN i
    ELSE IF Trim(At(ls, i)) = Str_PROPERTIES THEN i
    ELSE FindDrawer(ls, i + 1, end)

EmptyProps == [k \in {} |-> <<>>]

\* The loop of org.ts:169-178: the properties read up to :END:, and hasEnd
RECURSIVE ReadDrawer(_, _, _, _)
ReadDrawer(ls, i, end, props) ==
    IF i > end THEN [hasEnd |-> FALSE, props |-> props]
    ELSE LET t == Trim(At(ls, i))
         IN IF t = Str_END THEN [hasEnd |-> TRUE, props |-> props]
            ELSE IF PropMatches(t)
                 THEN ReadDrawer(ls, i + 1, end, (PropKey(t) :> PropValue(t)) @@ props)
                 ELSE ReadDrawer(ls, i + 1, end, props)

\* parsePropertiesDrawer, org.ts:158-181
parsePropertiesDrawer(ls, start, end) ==
    LET i == FindDrawer(ls, start, end)
    IN IF i > end THEN EmptyProps
       ELSE LET r == ReadDrawer(ls, i + 1, end, EmptyProps)
            IN IF r.hasEnd THEN r.props ELSE EmptyProps

SectionEnd_NextHeading(ls, j, last, level) ==
    LET hs == {k \in j..last : isHeadingLine(At(ls, k))}
    IN IF hs = {} THEN last ELSE (CHOOSE k \in hs : \A m \in hs : k <= m) - 1
\* org.ts:195-203: first j in [j, n) that is a heading of level <= level, minus 1;
\* n - 1 when there is none
RECURSIVE SectionEnd(_, _, _, _)
SectionEnd(ls, j, last, level) ==
    IF j > last THEN last
    ELSE IF isHeadingLine(At(ls, j)) /\ headingLevel(At(ls, j)) <= level THEN j - 1
    ELSE SectionEnd(ls, j + 1, last, level)

SectionEnd_SameLevelOnly(ls, i) ==
    LET RECURSIVE go(_)
        go(j) == IF j > Len(ls) - 1 THEN Len(ls) - 1
                 ELSE IF isHeadingLine(At(ls, j)) /\ headingLevel(At(ls, j)) = headingLevel(At(ls, i))
                      THEN j - 1
                      ELSE go(j + 1)
    IN go(i + 1)
\* The end line computed for the heading at line i
HeadingEnd(ls, i) == SectionEnd(ls, i + 1, Len(ls) - 1, headingLevel(At(ls, i)))

\* The task pushed for the heading at line i, org.ts:192-217
TaskAt(ls, i, allowedStates) ==
    LET h == parseHeading(At(ls, i), allowedStates)
        end == HeadingEnd(ls, i)
        properties == parsePropertiesDrawer(ls, i + 1, end)
    IN [id |-> IF Str_ID \in DOMAIN properties THEN properties[Str_ID] ELSE <<>>,
        level |-> h.level, rawHeadingLine |-> At(ls, i), title |-> h.title,
        state |-> h.state, properties |-> properties, startLine |-> i, endLine |-> end]

RECURSIVE TasksFrom(_, _, _)
TasksFrom(ls, i, allowedStates) ==
    IF i > Len(ls) - 1 THEN <<>>
    ELSE IF ~isHeadingLine(At(ls, i)) THEN TasksFrom(ls, i + 1, allowedStates)
    ELSE LET t == TaskAt(ls, i, allowedStates)
         IN IF t.id # <<>> THEN <<t>> \o TasksFrom(ls, i + 1, allowedStates)
            ELSE TasksFrom(ls, i + 1, allowedStates)

\* parseTasksFromOrg, org.ts:183-222
parseTasksFromOrg(t, allowedStates) ==
    Bind(sliceLines(t), LAMBDA la : TasksFrom(la.ls, 0, allowedStates))

NotFound == [id |-> <<>>]

findTaskById_Last(t, taskId, allowedStates) ==
    LET tasks == parseTasksFromOrg(t, allowedStates)
        hits == {i \in 1..Len(tasks) : tasks[i].id = taskId}
    IN IF hits = {} THEN NotFound
       ELSE tasks[CHOOSE i \in hits : \A j \in hits : i >= j]
\* findTaskById, org.ts:224-229: the first task with that id, or NotFound (the throw)
findTaskById(t, taskId, allowedStates) ==
    Bind(parseTasksFromOrg(t, allowedStates), LAMBDA tasks :
        LET hits == {i \in 1..Len(tasks) : tasks[i].id = taskId}
        IN IF hits = {} THEN NotFound
           ELSE tasks[CHOOSE i \in hits : \A j \in hits : i <= j])

-----------------------------------------------------------------------------
(* Subsections and mutators (org.ts:231-360).  A result is a record with   *)
(* kind "ok" and the produced text, or the kind of the thrown error.       *)

SubEnd_ToTaskEnd(ls, j, taskEnd, lvl) == taskEnd
\* org.ts:245-254: end of the subheading at line i of level lvl, within the task
RECURSIVE SubEnd(_, _, _, _)
SubEnd(ls, j, taskEnd, lvl) ==
    IF j > taskEnd THEN taskEnd
    ELSE IF isHeadingLine(At(ls, j)) /\ headingLevel(At(ls, j)) <= lvl THEN j - 1
    ELSE SubEnd(ls, j + 1, taskEnd, lvl)

NoRange == [start |-> -1, end |-> -1, level |-> 0]      \* null

\* findSubheadingRange, org.ts:231-259
RECURSIVE SubFrom(_, _, _, _)
SubFrom(ls, i, task, subheadingTitle) ==
    IF i > task.endLine THEN NoRange
    ELSE LET line == At(ls, i)
         IN IF /\ isHeadingLine(line)
               /\ headingLevel(line) = task.level + 1
               /\ Trim(StripMarkers(line)) = subheadingTitle
            THEN [start |-> i, end |-> SubEnd(ls, i + 1, task.endLine, task.level + 1),
                  level |-> task.level + 1]
            ELSE SubFrom(ls, i + 1, task, subheadingTitle)

findSubheadingRange_NotFound(ls, task, subheadingTitle) == NoRange
findSubheadingRange(ls, task, subheadingTitle) ==
    SubFrom(ls, task.startLine + 1, task, subheadingTitle)

Err(kind) == [kind |-> kind, text |-> <<>>]
Ok(t) == [kind |-> "ok", text |-> t]

\* getTaskAgentContext, org.ts:261-281
getTaskAgentContext(t, taskId, allowedStates) ==
    Bind(sliceLines(t), LAMBDA la :
    Bind(findTaskById(t, taskId, allowedStates), LAMBDA task :
        IF task = NotFound THEN [kind |-> "TaskNotFound"]
        ELSE Bind(findSubheadingRange(la.ls, task, Str_AgentContext), LAMBDA range :
                 [kind |-> "ok", id |-> task.id, state |-> task.state, title |-> task.title,
                  properties |-> task.properties,
                  agentContext |->
                      IF range = NoRange THEN <<>>
                      ELSE Trim(JoinWith(SubSeq(la.ls, range.start + 2, range.end + 1), <<LF>>))])))

\* org.ts:295-308: the rewritten heading line
RewriteHeading(original, newState, allowedStates) ==
    LET n == StarRun(original)
        stars == Take(original, n)
        afterWs == Drop(original, n + SpaceRun(Drop(original, n)))
        word == Take(afterWs, WordRun(afterWs))
        afterWord == Drop(afterWs, Len(word))
        \* /^(\*+)\s+(\S+)\s+(.*)$/
        withStateMatch == word # <<>> /\ SpaceRun(afterWord) >= 1
    IN IF withStateMatch /\ Includes(allowedStates, word)
       THEN stars \o <<" ">> \o newState \o <<" ">> \o Drop(afterWord, SpaceRun(afterWord))
       ELSE stars \o <<" ">> \o newState \o <<" ">> \o afterWs

\* setTaskState, org.ts:283-311
setTaskState(t, taskId, newState, allowedStates) ==
    IF ~Includes(allowedStates, newState) THEN Err("InvalidState")
    ELSE Bind(sliceLines(t), LAMBDA la :
         Bind(findTaskById(t, taskId, allowedStates), LAMBDA task :
             IF task = NotFound THEN Err("TaskNotFound")
             ELSE IF ~isHeadingLine(At(la.ls, task.startLine)) THEN Err("MalformedHeading")
             ELSE Ok(joinLines([la EXCEPT !.ls[task.startLine + 1] =
                                    RewriteHeading(@, newState, allowedStates)]))))

\* org.ts:339-346: the entry made single-line
RECURSIVE CleanLines(_)
CleanLines(ls) ==
    IF ls = <<>> THEN <<>>
    ELSE LET l == TrimEnd(StripMarkers(Head(ls)))
         IN IF Len(l) > 0 THEN <<l>> \o CleanLines(Tail(ls)) ELSE CleanLines(Tail(ls))

SafeEntry_Raw(entry) == entry
\* org.ts:339-346
SafeEntry(entry) == Trim(JoinWith(CleanLines(SplitLF(Normalize(entry))), <<" ">>))

Repeat_OneLess(c, n) == [i \in 1..(n - 1) |-> c]
\* "*".repeat(n)
Repeat(c, n) == [i \in 1..n |-> c]

\* org.ts:330-332: the lines with the new Log heading and a blank line
\* inserted after the last line of the task
InsertLogHeading(ls, task) ==
    Splice(ls, task.endLine + 1,
           << Repeat("*", task.level + 1) \o <<" ">> \o Str_Log, <<>> >>)

NewLogRange_HeadingOnly(task) ==
    [start |-> task.endLine + 1, end |-> task.endLine + 1, level |-> task.level + 1]
\* org.ts:334: the range of the new Log section, constructed directly
NewLogRange(task) ==
    [start |-> task.endLine + 1, end |-> task.endLine + 2, level |-> task.level + 1]

\* org.ts:348-357: the bullet inserted after the last line of the Log range
InsertBullet(ls1, logRange, bullet) ==
    LET insertionPoint == logRange.end + 1
        before == IF insertionPoint - 1 >= 0 /\ insertionPoint - 1 < Len(ls1)
                  THEN At(ls1, insertionPoint - 1) ELSE <<>>
    IN IF Trim(before) # <<>>
       THEN Splice(ls1, insertionPoint, <<<<>>, bullet>>)
       ELSE Splice(ls1, insertionPoint, <<bullet>>)

\* appendTaskLog, org.ts:313-360 (stamp is ts.toISOString())
appendTaskLog(t, taskId, entry, stamp, allowedStates) ==
    Bind(sliceLines(t), LAMBDA la :
    Bind(findTaskById(t, taskId, allowedStates), LAMBDA task :
        IF task = NotFound THEN Err("TaskNotFound")
        ELSE Bind(findSubheadingRange(la.ls, task, Str_Log), LAMBDA found :
             LET ls1 == IF found = NoRange THEN InsertLogHeading(la.ls, task) ELSE la.ls
                 logRange == IF found = NoRange THEN NewLogRange(task) ELSE found
                 bullet == <<"-", " ", "[">> \o stamp \o <<"]", " ">> \o SafeEntry(entry)
             IN Ok(joinLines([la EXCEPT !.ls = InsertBullet(ls1, logRange, bullet)])))))

\* The earlier Log creation (part_001:224-240): after the insertion the lines
\* are serialized, the task is looked up again in the new text and the Log
\* range is searched in the lines of the new text
ReparsedLogRange(la, task, taskId, allowedStates) ==
    Bind(joinLines([la EXCEPT !.ls = InsertLogHeading(la.ls, task)]), LAMBDA newText :
    Bind(findTaskById(newText, taskId, allowedStates), LAMBDA newTask :
        IF newTask = NotFound THEN NoRange
        ELSE Bind(sliceLines(newText), LAMBDA newLines :
                 findSubheadingRange(newLines.ls, newTask, Str_Log))))

\* appendTaskLog with the earlier Log creation in place of org.ts:327-335:
\* when the re-parse finds the new section, the function calls itself on the
\* new text (part_001:239), where the section exists and the entry is
\* appended under it as in org.ts:337-359.
appendTaskLogReparse(t, taskId, entry, stamp, allowedStates) ==
    Bind(sliceLines(t), LAMBDA la :
    Bind(findTaskById(t, taskId, allowedStates), LAMBDA task :
        IF task = NotFound THEN Err("TaskNotFound")
        ELSE IF findSubheadingRange(la.ls, task, Str_Log) # NoRange
             THEN appendTaskLog(t, taskId, entry, stamp, allowedStates)
        ELSE IF ReparsedLogRange(la, task, taskId, allowedStates) = NoRange
             THEN Err("LogNotCreated")
        ELSE Bind(joinLines([la EXCEPT !.ls = InsertLogHeading(la.ls, task)]), LAMBDA newText :
                 appendTaskLog(newText, taskId, entry, stamp, allowedStates))))

-----------------------------------------------------------------------------
(* SpecRoundTrip: parse then serialize a raw text with no mutation *)

RawChars == {"a", LF, CR}
RECURSIVE SeqsUpTo(_, _)
SeqsUpTo(S, n) ==
    IF n = 0 THEN {<<>>}
    ELSE LET shorter == SeqsUpTo(S, n - 1)
         IN shorter \cup {Append(q, c) : q \in {r \in shorter : Len(r) = n - 1}, c \in S}

FsIdle ==
    /\ file = Missing
    /\ lock = NoLock
    /\ tmp = <<>>
    /\ pc = <<>>
    /\ local = <<>>
    /\ elapsed = <<>>
    /\ fnErr = <<>>
    /\ outcome = <<>>
    /\ hist = <<>>
    /\ faults = 0

NoLines == [ls |-> <<>>, eol |-> "LF", nl |-> FALSE]

InitRoundTrip ==
    /\ FsIdle
    /\ text \in SeqsUpTo(RawChars, MaxTextLen)
    /\ tpc = "text"
    /\ lines = NoLines
    /\ out = <<>>

\* const lines = sliceLines(text);
Slice ==
    /\ tpc = "text"
    /\ lines' = sliceLines(text)
    /\ tpc' = "lines"
    /\ UNCHANGED <<text, out, fsVars>>

\* return joinLines(lines);
Join ==
    /\ tpc = "lines"
    /\ out' = joinLines(lines)
    /\ tpc' = "joined"
    /\ UNCHANGED <<text, lines, fsVars>>

NextRoundTrip == Slice \/ Join
SpecRoundTrip == InitRoundTrip /\ [][NextRoundTrip]_vars

\* The terminator styles that occur in a text
Terminators(t) ==
    {s \in {"CRLF", "CR", "LF"} :
        \E i \in 1..Len(t) :
            LET crlf == t[i] = CR /\ i < Len(t) /\ t[i + 1] = LF
                afterCr == i > 1 /\ t[i - 1] = CR
            IN CASE s = "CRLF" -> crlf
                 [] s = "CR" -> t[i] = CR /\ ~crlf
                 [] OTHER -> t[i] = LF /\ ~afterCr}

\* C8: round trip: for every text D of ordinary characters, LF and CR,
\* joinLines(sliceLines(D)) equals D exactly.
C8_RoundTrip == tpc = "joined" => out = text

\* C8, for documents with one terminator style: for every text whose line
\* terminators all have the same style (the empty text and texts with or
\* without a final terminator included), joinLines(sliceLines(D)) equals D.
C8_RoundTripUniform ==
    (tpc = "joined" /\ Cardinality(Terminators(text)) <= 1) => out = text

\* A CRLF text of several lines without a final terminator came back unchanged
C8_Witness ==
    /\ tpc = "joined"
    /\ Terminators(text) = {"CRLF"}
    /\ ~EndsWithNewline(text)
    /\ Len(lines.ls) >= 2
    /\ out = text

-----------------------------------------------------------------------------
(* SpecText: one request of the server (part_000:36-148) against a         *)
(* workflow file whose content is a concrete document.  The document is a  *)
(* concatenation of up to MaxSegs segments, written with one terminator    *)
(* style, with or without a final terminator.                              *)

MaxSegs == 3         \* segments of a generated document

Segments ==
    { << <<"*", " ", "T">> >>,
      << <<"*", " ", "T", "O", "D", "O", " ", "T">> >>,
      << <<"*", "*", " ", "S">> >>,
      << <<"*", "*", " ", "L", "o", "g">> >>,
      << <<":", "P", "R", "O", "P", "E", "R", "T", "I", "E", "S", ":">>, <<":", "I", "D", ":", " ", "a">>, <<":", "E", "N", "D", ":">> >>,
      << <<":", "P", "R", "O", "P", "E", "R", "T", "I", "E", "S", ":">>, <<":", "I", "D", ":", " ", "a">> >>,
      << <<"-", " ", "c">> >>,
      << <<>> >> }

DocLines == {Flatten(q) : q \in SeqsUpTo(Segments, MaxSegs)}

\* The bytes of a document of the given lines
Render(ls, eol, nl) == JoinWith(ls, EolChars(eol)) \o (IF nl THEN EolChars(eol) ELSE <<>>)

STATES == DEFAULT_STATES       \* part_000:23

\* Request arguments
ReqTaskIds == { <<"a">>, <<"z", "z">> }
ReqStates == { <<"D", "O", "N", "E">>, <<"N", "O", "P", "E">> }
ReqEntries == { <<"x">> }
Stamp == <<"T", "1">>

NoOut == [op |-> "none"]

InitText ==
    /\ FsIdle
    /\ \E ls \in DocLines, eol \in {"LF", "CRLF", "CR"}, nl \in BOOLEAN :
           text = Render(ls, eol, nl)
    /\ tpc = "ready"
    /\ lines = NoLines
    /\ out = NoOut

Persist_Unconditional(res) == res.text
\* await writeOrgFile(filePath, next), reached only when the mutator returned
Persist(res) == IF res.kind = "ok" THEN res.text ELSE text

\* list_tasks, without its filters
ListTasksRequest ==
    /\ tpc = "ready"
    /\ out' = [op |-> "list_tasks", tasks |-> parseTasksFromOrg(text, STATES),
               before |-> text, wrote |-> FALSE]
    /\ tpc' = "done"
    /\ UNCHANGED <<text, lines, fsVars>>

\* get_task_context
GetTaskContextRequest ==
    /\ tpc = "ready"
    /\ \E id \in ReqTaskIds :
           out' = [op |-> "get_task_context", id |-> id,
                   res |-> getTaskAgentContext(text, id, STATES),
                   before |-> text, wrote |-> FALSE]
    /\ tpc' = "done"
    /\ UNCHANGED <<text, lines, fsVars>>

\* set_task_state
SetTaskStateRequest ==
    /\ tpc = "ready"
    /\ \E id \in ReqTaskIds, st \in ReqStates :
           \E res \in {setTaskState(text, id, st, STATES)} :
              /\ text' = Persist(res)
              /\ out' = [op |-> "set_task_state", id |-> id, state |-> st, res |-> res,
                         before |-> text, wrote |-> res.kind = "ok"]
    /\ tpc' = "done"
    /\ UNCHANGED <<lines, fsVars>>

\* append_task_log
AppendTaskLogRequest ==
    /\ tpc = "ready"
    /\ \E id \in ReqTaskIds, entry \in ReqEntries :
           \E res \in {appendTaskLog(text, id, entry, Stamp, STATES)} :
              /\ text' = Persist(res)
              /\ out' = [op |-> "append_task_log", id |-> id, entry |-> entry, res |-> res,
                         before |-> text, wrote |-> res.kind = "ok"]
    /\ tpc' = "done"
    /\ UNCHANGED <<lines, fsVars>>

NextText ==
    \/ ListTasksRequest
    \/ GetTaskContextRequest
    \/ SetTaskStateRequest
    \/ AppendTaskLogRequest

SpecText == InitText /\ [][NextText]_vars

\* The request named a task id that no task of the document it read carries
NoSuchTask ==
    LET tasks == parseTasksFromOrg(out.before, STATES)
    IN \A i \in 1..Len(tasks) : tasks[i].id # out.id

\* C6: a request that fails leaves the document unmodified: set_task_state
\* with a state outside the allowed set fails with InvalidState, and
\* get_task_context / set_task_state / append_task_log with an id matching no
\* task fail with TaskNotFound; no write is performed and the file content is
\* the same before and after the request.
C6_FailedRequestLeavesDocument ==
    (tpc = "done" /\ out.op # "list_tasks") =>
        /\ (out.op = "set_task_state" /\ ~Includes(STATES, out.state)) =>
               /\ out.res.kind = "InvalidState"
               /\ ~out.wrote
               /\ text = out.before
        /\ (NoSuchTask /\ (out.op = "set_task_state" => Includes(STATES, out.state))) =>
               /\ out.res.kind = "TaskNotFound"
               /\ ~out.wrote
               /\ text = out.before
        /\ out.res.kind # "ok" => (~out.wrote /\ text = out.before)

\* append_task_log named an unknown id against a document that has tasks
C6_Witness ==
    /\ tpc = "done"
    /\ out.op = "append_task_log"
    /\ NoSuchTask
    /\ Len(parseTasksFromOrg(out.before, STATES)) >= 1
    /\ out.res.kind = "TaskNotFound"
    /\ text = out.before

\* C9: the mutators preserve the line-ending convention and trailing-newline
\* state: after every successful setTaskState or appendTaskLog (appending to
\* the last task of the file included) the result ends with a terminator iff
\* the document did, and uses the same terminator style.
C9_EolAndTrailingNewlinePreserved ==
    (tpc = "done" /\ out.op \in {"set_task_state", "append_task_log"} /\ out.wrote) =>
        /\ EndsWithNewline(text) <=> EndsWithNewline(out.before)
        /\ Terminators(text) = Terminators(out.before)

-----------------------------------------------------------------------------
(* SpecRanges: the end line computed for every heading of a document       *)
(* (org.ts:188-203), the headings without an ID included.                  *)

MaxHeadLines == 4    \* lines of a generated outline

HeadLines ==
    { <<"*", " ", "a">>, <<"*", "*", " ", "a">>, <<"*", "*", "*", " ", "a">>,
      <<"*", "*", "a">>, <<"x">> }

InitRanges ==
    /\ FsIdle
    /\ \E ls \in SeqsUpTo(HeadLines, MaxHeadLines), nl \in BOOLEAN :
           text = Render(ls, "LF", nl)
    /\ tpc = "text"
    /\ lines = NoLines
    /\ out = NoOut

\* for (let i = 0; i < lines.length; i++) { if (!isHeadingLine(line)) continue; ... end ... }
ComputeRanges ==
    /\ tpc = "lines"
    /\ out' = [op |-> "ranges",
               range |-> [i \in {k \in 0..(Len(lines.ls) - 1) : isHeadingLine(At(lines.ls, k))} |->
                             [start |-> i, end |-> HeadingEnd(lines.ls, i),
                              level |-> headingLevel(At(lines.ls, i))]]]
    /\ tpc' = "ranged"
    /\ UNCHANGED <<text, lines, fsVars>>

NextRanges == Slice \/ ComputeRanges
SpecRanges == InitRanges /\ [][NextRanges]_vars

\* C10: the ranges computed for the headings of a document are laminar: a
\* later heading of the same or a shallower depth starts after the range of
\* an earlier one ends (siblings never overlap), and a heading that starts
\* inside another heading's range ends inside it.
C10_RangesLaminar ==
    tpc = "ranged" =>
        \A i, j \in DOMAIN out.range :
            i < j =>
                LET a == out.range[i]
                    b == out.range[j]
                IN /\ a.start <= a.end /\ a.end <= Len(lines.ls) - 1
                   /\ b.level <= a.level => b.start > a.end
                   /\ b.start <= a.end => (b.level > a.level /\ b.end <= a.end)

\* A heading with a child inside its range, followed by a sibling after it
C10_Witness ==
    /\ tpc = "ranged"
    /\ \E i, j, k \in DOMAIN out.range :
           /\ i < j /\ j < k
           /\ out.range[j].level > out.range[i].level
           /\ out.range[j].end <= out.range[i].end
           /\ out.range[k].level = out.range[i].level
           /\ out.range[k].start = out.range[i].end + 1
-----------------------------------------------------------------------------
(* SpecParse: parseTasksFromOrg and findTaskById (org.ts:183-229) on       *)
(* outlines built from headings, well-formed and malformed property        *)
(* drawers and plain lines.                                                *)

MaxParseSegs == 4    \* segments of a generated outline

Drawer(idLine) == << Str_PROPERTIES, idLine, Str_END >>

ParseSegments ==
    { << <<"*", " ", "T">> >>,
      << <<"*", "*", " ", "S">> >>,
      Drawer(<<":", "I", "D", ":", " ", "a">>),
      Drawer(<<":", "I", "D", ":", " ", "b">>),
      Drawer(<<":", "I", "D", ":">>),
      << Str_PROPERTIES, <<":", "I", "D", ":", " ", "a">> >>,
      << <<"x">> >> }

FindIds == { <<"a">>, <<"b">> }

InitParse ==
    /\ FsIdle
    /\ \E q \in SeqsUpTo(ParseSegments, MaxParseSegs), nl \in BOOLEAN :
           text = Render(Flatten(q), "LF", nl)
    /\ tpc = "ready"
    /\ lines = NoLines
    /\ out = NoOut

\* parseTasksFromOrg(text, STATES)
ExtractTasks ==
    /\ tpc = "ready"
    /\ lines' = sliceLines(text)
    /\ out' = [op |-> "extract", tasks |-> parseTasksFromOrg(text, STATES)]
    /\ tpc' = "parsed"
    /\ UNCHANGED <<text, fsVars>>

\* findTaskById(text, id, STATES); the tasks it searched are recorded too
FindTask ==
    /\ tpc = "ready"
    /\ lines' = sliceLines(text)
    /\ \E id \in FindIds :
           out' = [op |-> "find", id |-> id, task |-> findTaskById(text, id, STATES),
                   tasks |-> parseTasksFromOrg(text, STATES)]
    /\ tpc' = "found"
    /\ UNCHANGED <<text, fsVars>>

NextParse == ExtractTasks \/ FindTask
SpecParse == InitParse /\ [][NextParse]_vars

\* The heading lines of the parsed document (0-based indexes)
HeadingLines == {i \in 0..(Len(lines.ls) - 1) : isHeadingLine(At(lines.ls, i))}

\* First heading line after line i, or the number of lines
NextHeading(i) ==
    LET later == {j \in HeadingLines : j > i}
    IN IF later = {} THEN Len(lines.ls) ELSE CHOOSE j \in later : \A k \in later : j <= k

\* Heading i is immediately followed by a :PROPERTIES: line
HasOwnBlock(i) == i + 1 < Len(lines.ls) /\ Trim(At(lines.ls, i + 1)) = Str_PROPERTIES

\* Lines of the block of heading i carrying :END:, before the next heading
OwnBlockEnds(i) == {k \in (i + 2)..(NextHeading(i) - 1) : Trim(At(lines.ls, k)) = Str_END}

\* The IDs given by the own block of heading i, in line order
OwnBlockIdLines(i) ==
    IF ~HasOwnBlock(i) \/ OwnBlockEnds(i) = {} THEN {}
    ELSE LET e == CHOOSE k \in OwnBlockEnds(i) : \A m \in OwnBlockEnds(i) : k <= m
         IN {k \in (i + 2)..(e - 1) :
                LET t == Trim(At(lines.ls, k)) IN PropMatches(t) /\ PropKey(t) = Str_ID}

EmittedAt(i) == \E k \in 1..Len(out.tasks) : out.tasks[k].startLine = i

\* C11: a heading is emitted as a task only with a non-empty ID; a heading
\* whose metadata block has no :END: line never yields a task, even if the
\* block has an :ID: line and later headings in its range carry well-formed
\* blocks; and every heading whose own block is well-formed with a non-empty
\* ID is extracted whatever malformed blocks the document holds.
C11_MalformedBlockNeverATask ==
    tpc = "parsed" =>
        /\ \A k \in 1..Len(out.tasks) :
               /\ out.tasks[k].id # <<>>
               /\ Str_ID \in DOMAIN out.tasks[k].properties
               /\ out.tasks[k].properties[Str_ID] = out.tasks[k].id
        /\ \A i \in HeadingLines :
               (HasOwnBlock(i) /\ OwnBlockEnds(i) = {}) => ~EmittedAt(i)
        /\ \A i \in HeadingLines :
               (\E k \in OwnBlockIdLines(i) : PropValue(Trim(At(lines.ls, k))) # <<>>
                    /\ \A m \in OwnBlockIdLines(i) : m <= k)
                   => EmittedAt(i)

\* Heading i has a :PROPERTIES: line in its own body, before the next heading
BlockInOwnBody(i) ==
    \E k \in (i + 1)..(NextHeading(i) - 1) : Trim(At(lines.ls, k)) = Str_PROPERTIES

\* C12: a task's metadata is its own: a heading is emitted as a task only
\* from a metadata block of its own (read here in the widest sense: a block
\* that starts in the heading's own body, before any later heading); a
\* heading with no block of its own is not made a task by the block of a
\* descendant, and is never what findTaskById returns.
C12_OwnMetadataOnly ==
    /\ tpc = "parsed" =>
           \A k \in 1..Len(out.tasks) : BlockInOwnBody(out.tasks[k].startLine)
    /\ (tpc = "found" /\ out.task # NotFound) => BlockInOwnBody(out.task.startLine)

\* The tasks whose id is the requested one, as indexes into out.tasks
Matching == {k \in 1..Len(out.tasks) : out.tasks[k].id = out.id}

\* C13: the extracted tasks are in document order (strictly increasing
\* heading line), one entry for every heading that yields an ID, also when
\* ids repeat; findTaskById returns the first task in that order with the
\* requested id, and fails with TaskNotFound exactly when no task has it.
C13_DocumentOrderFirstMatch ==
    /\ tpc \in {"parsed", "found"} =>
           /\ \A k, m \in 1..Len(out.tasks) :
                  k < m => out.tasks[k].startLine < out.tasks[m].startLine
           /\ {out.tasks[k].startLine : k \in 1..Len(out.tasks)}
                  = {i \in HeadingLines : TaskAt(lines.ls, i, STATES).id # <<>>}
           /\ \A k \in 1..Len(out.tasks) :
                  out.tasks[k] = TaskAt(lines.ls, out.tasks[k].startLine, STATES)
    /\ tpc = "found" =>
           /\ (out.task = NotFound) <=> (Matching = {})
           /\ Matching # {} =>
                  out.task = out.tasks[CHOOSE k \in Matching : \A m \in Matching : k <= m]

\* The first task carries another id: the second one is returned
C13_Witness ==
    /\ tpc = "found"
    /\ Len(out.tasks) >= 2
    /\ out.tasks[1].id # out.id
    /\ out.task = out.tasks[2]

-----------------------------------------------------------------------------
(* SpecHeading: set_task_state (part_000:106-120, org.ts:283-311) on a     *)
(* task whose heading line varies: markers, gaps, an optional first word   *)
(* (a recognized keyword or not) and an optional remainder with tags.      *)

MaxGap == 2          \* longest run of spaces between the tokens of a heading

Gap(n) == [i \in 1..n |-> " "]

HeadingForms ==
    { stars \o Gap(g1) \o word \o Gap(g2) \o rest :
        stars \in { <<"*">>, <<"*", "*">> },
        g1 \in 1..MaxGap,
        word \in { <<>>, <<"T", "O", "D", "O">>, <<"D", "O", "N", "E">>, <<"T", "x">> },
        g2 \in 0..MaxGap,
        rest \in { <<>>, <<"T">>, <<"T", " ", ":", "a", ":">> } }

InitHeading ==
    /\ FsIdle
    /\ \E h \in HeadingForms, pre \in { <<>>, << <<"x">> >> },
          post \in { <<>>, << <<"-", " ", "c">> >> }, nl \in BOOLEAN :
           text = Render(pre \o <<h>> \o Drawer(<<":", "I", "D", ":", " ", "a">>) \o post, "LF", nl)
    /\ tpc = "ready"
    /\ lines = NoLines
    /\ out = NoOut

SpecHeading == InitHeading /\ [][SetTaskStateRequest]_vars

\* The remainder of a heading line: what follows the markers, the recognized
\* state keyword if there is one, and the white space after each
Remainder(line) ==
    LET rest == StripMarkers(line)
        h == parseHeading(line, STATES)
    IN IF h.state = <<>> THEN rest
       ELSE LET after == Drop(rest, Len(h.state)) IN Drop(after, SpaceRun(after))

\* C14: setTaskState changes only the state keyword token of the task's
\* heading line: the other lines and the number of lines are unchanged; on
\* the heading line the markers and the remainder (title and tags) are
\* byte-identical, and between them stands the new keyword alone: an
\* existing recognized keyword is replaced, never kept beside it, and with no
\* recognized keyword the new one is inserted right after the markers.
C14_OnlyStateTokenChanges ==
    (tpc = "done" /\ out.op = "set_task_state" /\ out.wrote) =>
        LET old == sliceLines(out.before).ls
            new == sliceLines(text).ls
            i == findTaskById(out.before, out.id, STATES).startLine
            n == StarRun(At(old, i))
            r == Remainder(At(old, i))
            line == At(new, i)
        IN /\ Len(new) = Len(old)
           /\ \A j \in 0..(Len(old) - 1) : j # i => At(new, j) = At(old, j)
           /\ Take(line, n) = Take(At(old, i), n)
           /\ Len(line) >= n + Len(r)
           /\ Drop(line, Len(line) - Len(r)) = r
           /\ Trim(SubSeq(line, n + 1, Len(line) - Len(r))) = out.state

-----------------------------------------------------------------------------
(* SpecAppend: appendTaskLog (org.ts:313-360) called twice on the same     *)
(* task, with entries "x" then "y" stamped T1 then T2.                     *)

MaxAppendSegs == 4   \* segments of a generated document

AppendSegments ==
    { << <<"*", " ", "T">> >> \o Drawer(<<":", "I", "D", ":", " ", "a">>),
      << <<"*", "*", " ", "V">> >> \o Drawer(<<":", "I", "D", ":", " ", "a">>),
      << <<"*", " ", "U">> >>,
      << <<"*", "*", " ", "S">> >>,
      << <<"*", "*", " ", "L", "o", "g">> >>,
      << <<"*", "*", "*", " ", "L", "o", "g">> >>,
      << <<"-", " ", "c">> >>,
      << <<>> >> }

Entry1 == <<"x">>
Entry2 == <<"y">>
Stamp1 == <<"T", "1">>
Stamp2 == <<"T", "2">>

InitAppend ==
    /\ FsIdle
    /\ \E q \in SeqsUpTo(AppendSegments, MaxAppendSegs), nl \in BOOLEAN :
           text = Render(Flatten(q), "LF", nl)
    /\ tpc = "ready"
    /\ lines = NoLines
    /\ out = NoOut

\* const next = appendTaskLog(text, task_id, "x", { timestamp: T1 })
AppendOnce ==
    /\ tpc = "ready"
    /\ \E id \in ReqTaskIds :
       \E res \in {appendTaskLog(text, id, Entry1, Stamp1, STATES)} :
           /\ text' = Persist(res)
           /\ out' = [op |-> "append", id |-> id, before |-> text, res |-> res]
           /\ tpc' = IF res.kind = "ok" THEN "once" ELSE "failed"
    /\ UNCHANGED <<lines, fsVars>>

\* appendTaskLog(next, task_id, "y", { timestamp: T2 })
AppendAgain ==
    /\ tpc = "once"
    /\ \E res \in {appendTaskLog(text, out.id, Entry2, Stamp2, STATES)} :
           /\ text' = Persist(res)
           /\ out' = [out EXCEPT !.res = res]
           /\ tpc' = IF res.kind = "ok" THEN "twice" ELSE "failed"
    /\ UNCHANGED <<lines, fsVars>>

NextAppend == AppendOnce \/ AppendAgain
SpecAppend == InitAppend /\ [][NextAppend]_vars

\* The direct child headings titled Log of a task, as line indexes
LogChildren(ls, task) ==
    {i \in (task.startLine + 1)..task.endLine :
        /\ isHeadingLine(At(ls, i))
        /\ headingLevel(At(ls, i)) = task.level + 1
        /\ Trim(StripMarkers(At(ls, i))) = Str_Log}

\* Last line of the child subsection that starts at line i
ChildEnd(ls, task, i) ==
    LET stops == {j \in (i + 1)..task.endLine :
                     isHeadingLine(At(ls, j)) /\ headingLevel(At(ls, j)) <= task.level + 1}
    IN IF stops = {} THEN task.endLine
       ELSE (CHOOSE j \in stops : \A k \in stops : j <= k) - 1

IsBullet(l) == Len(l) >= 2 /\ l[1] = "-" /\ l[2] = " "

\* The bullets of the first Log child of the task with the given id, in order
LogBullets(t, id) ==
    LET ls == sliceLines(t).ls
        task == findTaskById(t, id, STATES)
        logs == LogChildren(ls, task)
    IN IF logs = {} THEN <<>>
       ELSE LET i == CHOOSE j \in logs : \A k \in logs : j <= k
            IN SelectSeq(SubSeq(ls, i + 2, ChildEnd(ls, task, i) + 1), IsBullet)

LogCount(t, id) ==
    Cardinality(LogChildren(sliceLines(t).ls, findTaskById(t, id, STATES)))

NewBullets ==
    << <<"-", " ", "[">> \o Stamp1 \o <<"]", " ">> \o Entry1,
       <<"-", " ", "[">> \o Stamp2 \o <<"]", " ">> \o Entry2 >>

\* C15: repeated appends: for any document and task, after appendTaskLog was
\* called twice on the task it has exactly one direct child heading titled
\* Log, never two; the bullets that existed before are still there and
\* precede the new ones, which stand in call order inside that subsection.
C15_RepeatedAppends ==
    tpc = "twice" =>
        /\ LogCount(text, out.id) = 1
        /\ LogBullets(text, out.id) = LogBullets(out.before, out.id) \o NewBullets

\* C15, for a task that may already have several Log children: two calls add
\* a Log child only when the task had none (afterwards it has one if it had
\* none, else as many as before), and the bullets of its first Log child
\* are the earlier ones followed by the two new ones in call order.
C15_RepeatedAppendsNoNewDuplicate ==
    tpc = "twice" =>
        /\ LogCount(text, out.id) =
               IF LogCount(out.before, out.id) = 0 THEN 1 ELSE LogCount(out.before, out.id)
        /\ LogBullets(text, out.id) = LogBullets(out.before, out.id) \o NewBullets

\* The task had no Log child and is followed by another heading: one Log
\* child was created by the first call and reused by the second
C15_Witness ==
    /\ tpc = "twice"
    /\ LogCount(out.before, out.id) = 0
    /\ LogCount(text, out.id) = 1
    /\ LogBullets(text, out.id) = NewBullets
    /\ findTaskById(text, out.id, STATES).endLine < Len(sliceLines(text).ls) - 1

\* C16: Log creation: when the task has no direct child titled Log,
\* appendTaskLog inserts a heading with (task depth + 1) markers and title
\* Log at line index task.endLine + 1, then exactly one blank line, then the
\* bullet, and changes no other line; in the result the heading lies inside
\* the task's own range, is the Log child findSubheadingRange finds, and
\* precedes every following heading of depth at most the task's.
C16_LogCreatedAtEndOfTask ==
    (tpc = "once" /\ LogCount(out.before, out.id) = 0) =>
        LET old == sliceLines(out.before).ls
            new == sliceLines(text).ls
            t0 == findTaskById(out.before, out.id, STATES)
            t1 == findTaskById(text, out.id, STATES)
            e == t0.endLine
        IN /\ Len(new) = Len(old) + 3
           /\ \A j \in 0..e : At(new, j) = At(old, j)
           /\ \A j \in (e + 1)..(Len(old) - 1) : At(new, j + 3) = At(old, j)
           /\ StarRun(At(new, e + 1)) = t0.level + 1
           /\ Drop(At(new, e + 1), t0.level + 1) = <<" ">> \o Str_Log
           /\ At(new, e + 2) = <<>>
           /\ At(new, e + 3) = NewBullets[1]
           /\ t1.startLine = t0.startLine /\ t1.level = t0.level
           /\ t1.endLine = e + 3
           /\ LogChildren(new, t1) = {e + 1}
           /\ findSubheadingRange(new, t1, Str_Log) =
                  [start |-> e + 1, end |-> e + 3, level |-> t0.level + 1]
           /\ \A i \in (t0.startLine + 1)..(Len(new) - 1) :
                  (isHeadingLine(At(new, i)) /\ headingLevel(At(new, i)) <= t0.level) => i > e + 3

\* A Log child was created for a task that has a child and is followed by
\* another heading of its depth
C16_Witness ==
    /\ tpc = "once"
    /\ LogCount(out.before, out.id) = 0
    /\ LogCount(text, out.id) = 1
    /\ LET new == sliceLines(text).ls
           t1 == findTaskById(text, out.id, STATES)
       IN /\ t1.endLine < Len(new) - 1
          /\ \E i \in (t1.startLine + 1)..t1.endLine :
                 isHeadingLine(At(new, i)) /\ Trim(StripMarkers(At(new, i))) # Str_Log

-----------------------------------------------------------------------------
(* SpecEntry: append_task_log (part_000:133-147, org.ts:313-360) with      *)
(* entry texts that hold terminators, leading markers and drawer lines.    *)

MaxEntryLen == 4     \* characters of a free-form entry

EntryChars == {"*", " ", "x", LF, CR}

EntryLineForms ==
    { Str_PROPERTIES, <<":", "I", "D", ":", " ", "x">>, Str_END,
      <<"*", " ", "H">>, <<"*", "*", " ", "L", "o", "g">> }

EntryTexts ==
    SeqsUpTo(EntryChars, MaxEntryLen)
        \cup {Render(ls, eol, nl) : ls \in SeqsUpTo(EntryLineForms, 2) \ {<<>>},
                                    eol \in {"LF", "CRLF", "CR"}, nl \in BOOLEAN}

EntryDocs ==
    LET taskA == << <<"*", " ", "T">> >> \o Drawer(<<":", "I", "D", ":", " ", "a">>)
        taskB == << <<"*", " ", "T", "O", "D", "O", " ", "U", " ", ":", "t", ":">> >>
                     \o Drawer(<<":", "I", "D", ":", " ", "b">>)
        log == << <<"*", "*", " ", "L", "o", "g">>, <<"-", " ", "c">> >>
        open == << <<"*", "*", " ", "S">>, Str_PROPERTIES, <<":", "I", "D", ":", " ", "c">> >>
    IN { taskA, taskA \o log, taskA \o taskB, taskA \o log \o taskB,
         taskA \o open, taskA \o open \o taskB, taskB \o taskA \o <<<<>>>> }

InitEntry ==
    /\ FsIdle
    /\ \E ls \in EntryDocs, nl \in BOOLEAN : text = Render(ls, "LF", nl)
    /\ tpc = "ready"
    /\ lines = NoLines
    /\ out = NoOut

\* append_task_log with an arbitrary entry text
AppendEntryRequest ==
    /\ tpc = "ready"
    /\ \E id \in ReqTaskIds, entry \in EntryTexts :
           \E res \in {appendTaskLog(text, id, entry, Stamp, STATES)} :
              /\ text' = Persist(res)
              /\ out' = [op |-> "append_entry", id |-> id, entry |-> entry, res |-> res,
                         before |-> text, wrote |-> res.kind = "ok"]
    /\ tpc' = "done"
    /\ UNCHANGED <<lines, fsVars>>

SpecEntry == InitEntry /\ [][AppendEntryRequest]_vars

\* What the claim compares of a task
TaskView(tasks) ==
    [k \in 1..Len(tasks) |->
        [id |-> tasks[k].id, level |-> tasks[k].level, state |-> tasks[k].state,
         title |-> tasks[k].title, properties |-> tasks[k].properties]]

StampPrefix == <<"-", " ", "[">> \o Stamp \o <<"]", " ">>

\* A line that is a bullet carrying the stamp, and neither a heading nor a
\* drawer line
IsStampedBullet(l) ==
    /\ Len(l) >= Len(StampPrefix)
    /\ Take(l, Len(StampPrefix)) = StampPrefix
    /\ ~isHeadingLine(l)
    /\ Trim(l) \notin {Str_PROPERTIES, Str_END}
    /\ ~PropMatches(Trim(l))

\* The lines appendTaskLog may insert before its bullet: nothing, one blank
\* line, or a Log heading and one blank line
IsLead(ls) ==
    \/ ls = <<>>
    \/ ls = << <<>> >>
    \/ /\ Len(ls) = 2
       /\ isHeadingLine(ls[1]) /\ Trim(StripMarkers(ls[1])) = Str_Log
       /\ ls[2] = <<>>

\* C17: entry sanitization keeps the outline intact: for every entry text
\* (terminators, lines starting with markers, drawer lines included)
\* appendTaskLog adds exactly one bullet line in one place, that line is not
\* a heading, every earlier line is kept, and re-extracting the tasks gives
\* the same sequence of (id, depth, state, title, properties) as before.
C17_EntryKeepsOutline ==
    (tpc = "done" /\ out.op = "append_entry" /\ out.wrote) =>
        LET old == sliceLines(out.before).ls
            new == sliceLines(text).ls
            k == Len(new) - Len(old)
        IN /\ k \in 1..3
           /\ \E p \in 0..Len(old) :
                  /\ new = Splice(old, p, SubSeq(new, p + 1, p + k))
                  /\ IsStampedBullet(new[p + k])
                  /\ IsLead(SubSeq(new, p + 1, p + k - 1))
           /\ TaskView(parseTasksFromOrg(text, STATES))
                  = TaskView(parseTasksFromOrg(out.before, STATES))

\* An entry of two lines, the first a heading and the second :END:, was
\* appended to a task that is followed by another task
C17_Witness ==
    /\ tpc = "done" /\ out.op = "append_entry" /\ out.wrote
    /\ LET e == sliceLines(out.entry).ls
       IN Len(e) >= 2 /\ isHeadingLine(e[1]) /\ e[2] = Str_END
    /\ Len(parseTasksFromOrg(text, STATES)) = 2

-----------------------------------------------------------------------------
(* SpecContext: get_task_context (part_000:72-93, org.ts:261-281) on tasks *)
(* with Agent Context subsections, sibling subsections and nested headings *)

MaxContextSegs == 4  \* segments of a generated document

ContextSegments ==
    { << <<"*", " ", "T">> >> \o Drawer(<<":", "I", "D", ":", " ", "a">>),
      << <<"*", "*", " ", "A", "g", "e", "n", "t", " ", "C", "o", "n", "t", "e", "x", "t">> >>,
      << <<"*", "*", " ", "P", "r", "i", "v", "a", "t", "e", " ", "N", "o", "t", "e", "s">> >>,
      << <<"*", "*", "*", " ", "N">> >>,
      << <<"*", " ", "U">> >>,
      << <<" ", "c", " ">> >>,
      << <<>> >> }

InitContext ==
    /\ FsIdle
    /\ \E q \in SeqsUpTo(ContextSegments, MaxContextSegs), nl \in BOOLEAN :
           text = Render(Flatten(q), "LF", nl)
    /\ tpc = "ready"
    /\ lines = NoLines
    /\ out = NoOut

SpecContext == InitContext /\ [][GetTaskContextRequest]_vars

\* The direct child headings titled Agent Context of a task
ContextChildren(ls, task) ==
    {i \in (task.startLine + 1)..task.endLine :
        /\ isHeadingLine(At(ls, i))
        /\ headingLevel(At(ls, i)) = task.level + 1
        /\ Trim(StripMarkers(At(ls, i))) = Str_AgentContext}

\* C18: agentContext is exactly the trimmed text of the lines after the first
\* direct-child heading titled Agent Context up to, excluding, the next
\* heading of depth at most that subsection's, or the end of the task; it
\* holds no heading line of a sibling subsection, keeps deeper nested heading
\* lines verbatim, and is empty when the task has no such subsection.
C18_AgentContextOnly ==
    (tpc = "done" /\ out.op = "get_task_context" /\ out.res.kind = "ok") =>
        LET ls == sliceLines(out.before).ls
            task == findTaskById(out.before, out.id, STATES)
            subs == ContextChildren(ls, task)
            got == SplitLF(out.res.agentContext)
        IN /\ subs = {} => out.res.agentContext = <<>>
           /\ subs # {} =>
                  LET i == CHOOSE j \in subs : \A k \in subs : j <= k
                  IN out.res.agentContext =
                         Trim(JoinWith(SubSeq(ls, i + 2, ChildEnd(ls, task, i) + 1), <<LF>>))
           /\ \A n \in 1..Len(got) :
                  isHeadingLine(got[n]) => headingLevel(got[n]) > task.level + 1

\* The context holds a nested heading line, and a sibling subsection
\* follows the Agent Context subsection
C18_Witness ==
    /\ tpc = "done" /\ out.op = "get_task_context" /\ out.res.kind = "ok"
    /\ LET ls == sliceLines(out.before).ls
           task == findTaskById(out.before, out.id, STATES)
           got == SplitLF(out.res.agentContext)
       IN /\ \E n \in 1..Len(got) : isHeadingLine(got[n])
          /\ \E i \in ContextChildren(ls, task) : ChildEnd(ls, task, i) < task.endLine

-----------------------------------------------------------------------------
(* SpecLibrary: callers of the exported file helpers.  Each caller makes   *)
(* one call: readOrgFile(filePath), which ends at "transform" holding the  *)
(* returned text, or writeOrgFile(filePath, content) with a content of its *)
(* own (org.ts:42-50, 99-104).                                             *)

InitLibrary ==
    /\ file \in {Missing, InitialDoc}
    /\ lock = NoLock
    /\ tmp = [p \in Procs |-> Missing]
    /\ pc \in [Procs -> {"read", "acquire"}]
    /\ local = [p \in Procs |-> IF pc[p] = "acquire" THEN Mutate(InitialDoc, p) ELSE EmptyDoc]
    /\ elapsed = [p \in Procs |-> 0]
    /\ fnErr = [p \in Procs |-> "none"]
    /\ outcome = [p \in Procs |-> "none"]
    /\ hist = [p \in Procs |-> [runs |-> 0, before |-> Missing, staged |-> FALSE]]
    /\ faults = 0
    /\ TextIdle

NextLibrary ==
    \E p \in Procs :
        \/ ReadOrgFile(p)
        \/ ReadFails(p)
        \/ OpenLock(p)
        \/ OpenLockExists(p)
        \/ OpenLockFails(p)
        \/ WriteTmp(p)
        \/ WriteTmpFails(p)
        \/ Rename(p)
        \/ RenameRefused(p)
        \/ RenameFails(p)
        \/ FallbackOpen(p)
        \/ FallbackOpenFails(p)
        \/ FallbackWrite(p)
        \/ FallbackWriteFails(p)
        \/ Release(p)
        \/ Crash(p)

SpecLibrary == InitLibrary /\ [][NextLibrary]_vars

\* C19: missing file: readOrgFile on a path that does not exist returns the
\* empty text, from which list_tasks extracts no task; any other read
\* failure is surfaced as an error; and a write to a path that does not exist
\* is not refused by the rename: unless an I/O error or a crash stops it, it
\* creates the file with the given content and the request succeeds.
C19_MissingFile ==
    /\ [](parseTasksFromOrg(<<>>, STATES) = <<>>)
    /\ [](\A p \in Procs : (pc[p] = "done" /\ outcome[p] = "ok") => file.exists)
    /\ [][\A p \in Procs :
            /\ (pc[p] = "read" /\ pc'[p] = "transform") =>
                   local'[p] = IF file.exists THEN file ELSE EmptyDoc
            /\ (pc[p] = "read" /\ pc'[p] = "done") => outcome'[p] = "IOError"
            /\ (pc[p] = "rename" /\ ~file.exists /\ pc'[p] # "rename") =>
                   /\ pc'[p] \in {"release", "crashed"}
                   /\ (pc'[p] = "release" /\ fnErr'[p] = "none") =>
                          (file' = local[p] /\ file'.exists /\ file'.whole)
       ]_vars

\* One caller read the missing file as the empty text, then the write of
\* another caller created the file
C19_Witness ==
    \E p, q \in Procs :
        /\ pc[q] = "transform" /\ local[q] = EmptyDoc
        /\ pc[p] = "done" /\ outcome[p] = "ok"
        /\ ~hist[p].before.exists
        /\ file.exists /\ file.muts = {p}

-----------------------------------------------------------------------------
(* A further claim about the parser, checked under SpecParse *)

\* C20: range of a task: for every task extracted from lines L,
\* 0 <= startLine <= endLine <= len(L) - 1, L[startLine] is a heading of
\* depth task.level, no line in (startLine, endLine] is a heading of depth
\* <= task.level, and endLine = len(L) - 1 or L[endLine + 1] is a heading of
\* depth <= task.level.
C20_RangeOfTask ==
    tpc = "parsed" =>
        \A k \in 1..Len(out.tasks) :
            LET t == out.tasks[k]
                L == lines.ls
            IN /\ 0 <= t.startLine /\ t.startLine <= t.endLine /\ t.endLine <= Len(L) - 1
               /\ isHeadingLine(At(L, t.startLine))
               /\ StarRun(At(L, t.startLine)) = t.level
               /\ \A j \in (t.startLine + 1)..t.endLine :
                      ~(isHeadingLine(At(L, j)) /\ StarRun(At(L, j)) <= t.level)
               /\ \/ t.endLine = Len(L) - 1
                  \/ /\ isHeadingLine(At(L, t.endLine + 1))
                     /\ StarRun(At(L, t.endLine + 1)) <= t.level

\* A task whose range holds a deeper heading and ends before another heading
\* of its depth
C20_Witness ==
    /\ tpc = "parsed"
    /\ \E k \in 1..Len(out.tasks) :
           LET t == out.tasks[k]
           IN /\ t.endLine < Len(lines.ls) - 1
              /\ \E j \in (t.startLine + 1)..t.endLine : isHeadingLine(At(lines.ls, j))
-----------------------------------------------------------------------------
(* SpecStateSeq: a sequence of set_task_state requests (part_000:106-120,  *)
(* org.ts:283-311) on the same task, each with an allowed state, starting  *)
(* from the heading forms of SpecHeading.                                   *)

MaxCalls == 2        \* requests in a sequence

SeqTaskId == <<"a">>

\* Every value of allowedStates
SeqStates == {STATES[i] : i \in 1..Len(STATES)}

\* One more set_task_state request of the sequence.  out keeps the heading
\* line and the title the task had before the first call, and the state it
\* had before this call.
SetTaskStateCall ==
    /\ tpc \in {"ready", "called"}
    /\ (tpc = "called") => out.calls < MaxCalls
    /\ \E st \in SeqStates :
           \E res \in {setTaskState(text, SeqTaskId, st, STATES)} :
           \E task \in {findTaskById(text, SeqTaskId, STATES)} :
              /\ text' = Persist(res)
              /\ out' = [op |-> "set_task_state", id |-> SeqTaskId, state |-> st,
                         res |-> res, before |-> text, wrote |-> res.kind = "ok",
                         from |-> task.state,
                         title0 |-> IF tpc = "ready" THEN task.title ELSE out.title0,
                         head0 |-> IF tpc = "ready" THEN task.rawHeadingLine ELSE out.head0,
                         calls |-> IF tpc = "ready" THEN 1 ELSE out.calls + 1]
    /\ tpc' = "called"
    /\ UNCHANGED <<lines, fsVars>>

SpecStateSeq == InitHeading /\ [][SetTaskStateCall]_vars

\* C21: the state is freely settable and the title is stable: every
\* setTaskState call with an allowed state succeeds, whatever state the task
\* had (another allowed state or none), and after any sequence of such calls
\* re-parsing the result gives the task the last requested state and the
\* title it had before the first call, whatever its heading looked like
\* initially (no keyword, a keyword and a title, a keyword with no title).
C21_StateSettableTitleStable ==
    tpc = "called" =>
        /\ out.res.kind = "ok"
        /\ LET task == findTaskById(text, SeqTaskId, STATES)
           IN /\ task # NotFound
              /\ task.state = out.state
              /\ task.title = out.title0

\* The heading of the task before the first call was its markers and a
\* recognized keyword that ends the line
KeywordEndsHeading == StripMarkers(out.head0) \in SeqStates

\* C21 on every sequence but those that start from such a heading
C21_UnlessKeywordEndsHeading ==
    (tpc = "called" /\ ~KeywordEndsHeading) =>
        /\ out.res.kind = "ok"
        /\ LET task == findTaskById(text, SeqTaskId, STATES)
           IN task # NotFound /\ task.state = out.state /\ task.title = out.title0
-----------------------------------------------------------------------------
(* SpecReparse: one append_task_log request (org.ts:313-360), computed     *)
(* both by the single-pass Log creation and by the earlier creation that   *)
(* re-parses (part_001:224-240).                                           *)

MaxReparseSegs == 4  \* segments of a generated document

\* A task of depth 1 and one of depth 2 with the same id, a child heading, a
\* Log child of the first, a content line and a blank line
ReparseSegments ==
    { << <<"*", " ", "T">> >> \o Drawer(<<":", "I", "D", ":", " ", "a">>),
      << <<"*", "*", " ", "V">> >> \o Drawer(<<":", "I", "D", ":", " ", "a">>),
      << <<"*", "*", " ", "S">> >>,
      << <<"*", "*", " ", "L", "o", "g">> >>,
      << <<"-", " ", "c">> >>,
      << <<>> >> }

InitReparse ==
    /\ FsIdle
    /\ \E q \in SeqsUpTo(ReparseSegments, MaxReparseSegs), nl \in BOOLEAN :
           text = Render(Flatten(q), "LF", nl)
    /\ tpc = "ready"
    /\ lines = NoLines
    /\ out = NoOut

\* out keeps, when the request creates the Log section, the range built
\* directly and the range the re-parse finds, and the result of both ways.
AppendBothWays ==
    /\ tpc = "ready"
    /\ \E id \in ReqTaskIds :
       \E res \in {appendTaskLog(text, id, Entry1, Stamp1, STATES)} :
       \E alt \in {appendTaskLogReparse(text, id, Entry1, Stamp1, STATES)} :
       \E la \in {sliceLines(text)} :
       \E task \in {findTaskById(text, id, STATES)} :
       \E created \in {task # NotFound /\ findSubheadingRange(la.ls, task, Str_Log) = NoRange} :
           /\ text' = Persist(res)
           /\ out' = [op |-> "append_both", id |-> id, before |-> text,
                      res |-> res, alt |-> alt, created |-> created,
                      direct |-> IF created THEN NewLogRange(task) ELSE NoRange,
                      reparsed |-> IF created
                                   THEN ReparsedLogRange(la, task, id, STATES)
                                   ELSE NoRange]
    /\ tpc' = "compared"
    /\ UNCHANGED <<lines, fsVars>>

SpecReparse == InitReparse /\ [][AppendBothWays]_vars

BlankLineDropped ==
    /\ ~EndsWithNewline(out.before)
    /\ out.direct.end = Len(sliceLines(out.before).ls) + 1

-----------------------------------------------------------------------------
(* A further claim about withAdvisoryLock (org.ts:73-97), checked under Spec *)

\* C23: withAdvisoryLock runs fn at most once per call; whenever fn fails,
\* whatever the code of its error (an "already exists" code included), that
\* error is propagated to the caller after the marker is released; and the
\* acquisition retry loop is re-entered only when creating the marker file
\* itself failed because it already exists.
C23_FnOnceErrorPropagated ==
    /\ [](\A p \in Procs : hist[p].runs <= 1)
    /\ [][\A p \in Procs :
            /\ (pc[p] = "release" /\ fnErr[p] # "none" /\ pc'[p] # "release") =>
                   \/ pc'[p] = "crashed"
                   \/ /\ pc'[p] = "done"
                      /\ outcome'[p] = "IOError"
                      /\ lock' # p
            /\ (pc[p] # "acquire" /\ pc'[p] = "acquire") => pc[p] = "transform"
            /\ (pc[p] = "acquire" /\ pc'[p] = "acquire" /\ elapsed'[p] # elapsed[p]) =>
                   lock # NoLock
       ]_vars

\* C23 for every error of fn whose code is not the "already exists" code:
\* the error is propagated after the marker is released, and the retry loop
\* is entered from the marker creation only, or after fn failed with the
\* "already exists" code.
C23_UnlessFnThrowsAlreadyExists ==
    [][\A p \in Procs :
            /\ (pc[p] = "release" /\ fnErr[p] \notin {"none", "EEXIST"} /\ pc'[p] # "release") =>
                   \/ pc'[p] = "crashed"
                   \/ /\ pc'[p] = "done"
                      /\ outcome'[p] = "IOError"
                      /\ lock' # p
            /\ (pc[p] # "acquire" /\ pc'[p] = "acquire") =>
                   \/ pc[p] = "transform"
                   \/ pc[p] = "release" /\ fnErr[p] = "EEXIST"
            /\ (pc[p] = "acquire" /\ pc'[p] = "acquire" /\ elapsed'[p] # elapsed[p]) =>
                   lock # NoLock
       ]_vars
====
